---- MODULE Spec2Model ----
(***************************************************************************)
(* cargo-when: `cargo when` / `cargo unless` run a wrapped cargo command   *)
(* depending on the rustc channel, the rustc version and the environment.  *)
(* The model follows src/src/main.rs: the rustc probe (RustCInfo::get_info)*)
(* the four matchers, options_match, get_cargo_command and main.           *)
(*                                                                         *)
(* Strings whose characters matter (channels, NAME=VALUE requirements,     *)
(* environment names and values) are sequences of one-character strings.   *)
(* The semver crate is a library: a token of rustc's output and a version  *)
(* requirement string are represented by what Version::parse and           *)
(* VersionReq::parse return on them.                                       *)
(***************************************************************************)
EXTENDS Integers, Sequences, FiniteSets, TLC

VARIABLES
    mode,         \* matches.subcommand(): "when" or "unless"
    opts,         \* the sub-command's option values (sub.values_of(..))
    argv,         \* the external cargo subcommand and its arguments
    env,          \* the process environment
    rustc,        \* what running `rustc -V` does on this machine
    pc,           \* position of the process in main / options_match
    rustc_info,   \* options_match: let rustc_info
    env_matches,  \* options_match: let env_matches
    vers_matches, \* options_match: let vers_matches
    matched,      \* the value returned by options_match
    evaluated,    \* the matchers called so far, in call order
    command,      \* main: let command
    status,       \* main: let status
    started,      \* child processes started so far, in order
    running,      \* child processes currently running
    stderr,       \* what the process wrote to its error stream
    exit_code     \* the exit status of the process, once it has exited

vars == <<mode, opts, argv, env, rustc, pc, rustc_info, env_matches,
          vers_matches, matched, evaluated, command, status, started,
          running, stderr, exit_code>>

(***************************************************************************)
(* Bounds of the model.                                                    *)
(***************************************************************************)
MaxCands == 2      \* longest list of values given to one option
MaxReqLen == 3     \* longest NAME=VALUE requirement string
MaxTokens == 3     \* most whitespace-separated tokens printed by rustc

(***************************************************************************)
(* Values.                                                                 *)
(***************************************************************************)
RECURSIVE SeqsUpTo(_, _)
SeqsUpTo(S, n) ==
    IF n = 0 THEN {<<>>}
    ELSE LET shorter == SeqsUpTo(S, n - 1)
         IN  shorter \cup {Append(s, x) : s \in {t \in shorter : Len(t) = n - 1}, x \in S}

None == [some |-> FALSE, vals |-> <<>>]
Some(v) == [some |-> TRUE, vals |-> v]

\* Option<Values>: absent, or a non-empty list (min_values(1))
OptionValues(S, n) == {None} \cup {Some(v) : v \in SeqsUpTo(S, n) \ {<<>>}}

Ok(b) == [ok |-> TRUE, val |-> b, set |-> TRUE]
Err == [ok |-> FALSE, val |-> FALSE, set |-> TRUE]
Unevaluated == [ok |-> FALSE, val |-> FALSE, set |-> FALSE]

stable == <<"s", "t", "a", "b", "l", "e">>
beta == <<"b", "e", "t", "a">>
nightly == <<"n", "i", "g", "h", "t", "l", "y">>
unknown == <<"u", "n", "k", "n", "o", "w", "n">>

\* .possible_values(&["stable", "beta", "nightly"])
PossibleChannels == {stable, beta, nightly}

(***************************************************************************)
(* str::to_lowercase, character by character.                              *)
(***************************************************************************)
Uppers == <<"A", "B", "C", "D", "E", "F", "G", "H", "I", "J", "K", "L", "M",
            "N", "O", "P", "Q", "R", "S", "T", "U", "V", "W", "X", "Y", "Z">>
Lowers == <<"a", "b", "c", "d", "e", "f", "g", "h", "i", "j", "k", "l", "m",
            "n", "o", "p", "q", "r", "s", "t", "u", "v", "w", "x", "y", "z">>

to_lowercase(s) ==
    [i \in 1..Len(s) |->
        IF \E k \in 1..Len(Uppers) : Uppers[k] = s[i]
        THEN Lowers[CHOOSE k \in 1..Len(Uppers) : Uppers[k] = s[i]]
        ELSE s[i]]

(***************************************************************************)
(* semver values.  An identifier of the pre-release part is AlphaNumeric   *)
(* (with its text) or Numeric.                                             *)
(***************************************************************************)
AlphaNumeric(s) == [alnum |-> TRUE, s |-> s]
Numeric == [alnum |-> FALSE, s |-> <<>>]

Version(ma, mi, pa, pre) ==
    [ok |-> TRUE, major |-> ma, minor |-> mi, patch |-> pa, pre |-> pre]
NotAVersion ==
    [ok |-> FALSE, major |-> 0, minor |-> 0, patch |-> 0, pre |-> <<>>]

\* A whitespace-separated token of rustc's standard output: whether its bytes
\* are valid UTF-8, and the result of Version::parse on its text.
Token(utf8, ver) == [utf8 |-> utf8, ver |-> ver]
Word == Token(TRUE, NotAVersion)

\* String::from_utf8_lossy: invalid bytes become U+FFFD, which is not
\* whitespace and occurs in no version string.
from_utf8_lossy(stdout) ==
    [i \in 1..Len(stdout) |->
        IF stdout[i].utf8 THEN stdout[i] ELSE Token(TRUE, NotAVersion)]

\* Version::parse(verstr)
VersionParse(tok) == IF tok.utf8 THEN tok.ver ELSE NotAVersion

InfoOk(ch, v) == [ok |-> TRUE, channel |-> ch, version |-> v]
InfoPanic == [ok |-> FALSE, channel |-> <<>>, version |-> NotAVersion]

\* The channel of a parsed version (match version.pre.iter().next())
channel_of(version) ==
    IF Len(version.pre) > 0
    THEN IF version.pre[1].alnum THEN version.pre[1].s ELSE unknown
    ELSE stable

\* variant: a missing or unparsable version token falls back to stable 0.0.0
get_info_with_fallback(r) ==
    IF ~r.spawn THEN InfoPanic
    ELSE LET output_str == from_utf8_lossy(r.stdout)
         IN  IF Len(output_str) < 2 \/ ~VersionParse(output_str[2]).ok
             THEN InfoOk(stable, Version(0, 0, 0, <<>>))
             ELSE InfoOk(channel_of(VersionParse(output_str[2])),
                         Version(VersionParse(output_str[2]).major,
                                 VersionParse(output_str[2]).minor,
                                 VersionParse(output_str[2]).patch, <<>>))

\* RustCInfo::get_info: the three .expect() calls panic
get_info(r) ==
    IF ~r.spawn THEN InfoPanic
    ELSE LET output_str == from_utf8_lossy(r.stdout)
         IN  IF Len(output_str) < 2 THEN InfoPanic
             ELSE LET version == VersionParse(output_str[2])
                  IN  IF ~version.ok THEN InfoPanic
                      ELSE InfoOk(channel_of(version),
                                  Version(version.major, version.minor,
                                          version.patch, <<>>))

\* RustCInfo::matches_channel
matches_channel(info, channel) == info.channel = to_lowercase(channel)

\* RustCInfo::matches_any_channels
matches_any_channels(info, channels) ==
    IF channels.some
    THEN \E i \in 1..Len(channels.vals) : matches_channel(info, channels.vals[i])
    ELSE TRUE

(***************************************************************************)
(* Version requirements.  A requirement string is represented by the       *)
(* result of VersionReq::parse: malformed, or a conjunction of predicates. *)
(***************************************************************************)
Pred(op, ma, mi, pa) == [op |-> op, major |-> ma, minor |-> mi, patch |-> pa]
ReqOk(preds) == [ok |-> TRUE, preds |-> preds]
ReqBad == [ok |-> FALSE, preds |-> <<>>]

VLess(a, b) ==
    \/ a.major < b.major
    \/ a.major = b.major /\ a.minor < b.minor
    \/ a.major = b.major /\ a.minor = b.minor /\ a.patch < b.patch
VEq(a, b) == a.major = b.major /\ a.minor = b.minor /\ a.patch = b.patch

PredMatches(p, v) ==
    CASE p.op = "="  -> VEq(v, p)
      [] p.op = ">"  -> VLess(p, v)
      [] p.op = ">=" -> ~VLess(v, p)
      [] p.op = "<"  -> VLess(v, p)
      [] p.op = "<=" -> ~VLess(p, v)
      [] p.op = "~"  -> ~VLess(v, p) /\ v.major = p.major /\ v.minor = p.minor
      [] p.op = "^"  -> /\ ~VLess(v, p)
                        /\ v.major = p.major
                        /\ (p.major = 0 => v.minor = p.minor)
                        /\ (p.major = 0 /\ p.minor = 0 => v.patch = p.patch)

\* VersionReq::matches
ReqMatches(req, v) == \A i \in 1..Len(req.preds) : PredMatches(req.preds[i], v)

\* RustCInfo::matches_version
matches_version(info, version) ==
    IF ~version.ok THEN Err ELSE Ok(ReqMatches(version, info.version))

RECURSIVE AnyVersion(_, _, _)
AnyVersion(info, vers, i) ==
    IF i > Len(vers) THEN Ok(FALSE)
    ELSE LET m == matches_version(info, vers[i])
         IN  IF ~m.ok THEN Err
             ELSE IF m.val THEN Ok(TRUE)
             ELSE AnyVersion(info, vers, i + 1)

\* RustCInfo::matches_any_versions
matches_any_versions(info, versions) ==
    IF versions.some THEN AnyVersion(info, versions.vals, 1) ELSE Ok(TRUE)

(***************************************************************************)
(* Environment variables.                                                  *)
(***************************************************************************)
Unset == [set |-> FALSE, val |-> <<>>]
SetTo(v) == [set |-> TRUE, val |-> v]

\* env::var_os
var_os(e, name) == IF name \in DOMAIN e THEN e[name] ELSE Unset

\* variant: the last index of '=' in var (rsplitn)
LastEq(var) ==
    IF \E i \in 1..Len(var) : var[i] = "="
    THEN CHOOSE i \in 1..Len(var) :
            var[i] = "=" /\ \A j \in (i + 1)..Len(var) : var[j] # "="
    ELSE 0

\* the first index of '=' in var, 0 if there is none
FirstEq(var) ==
    IF \E i \in 1..Len(var) : var[i] = "="
    THEN CHOOSE i \in 1..Len(var) :
            var[i] = "=" /\ \A j \in 1..(i - 1) : var[j] # "="
    ELSE 0

EnvReqOk(n, v) == [ok |-> TRUE, name |-> n, value |-> v]
EnvReqErr == [ok |-> FALSE, name |-> <<>>, value |-> <<>>]

\* EnvVarReq::parse: var.splitn(2, '=')
EnvVarReq_parse(var) ==
    LET k == FirstEq(var)
        name == IF k = 0 THEN var ELSE SubSeq(var, 1, k - 1)
    IN  IF name = <<>> THEN EnvReqErr
        ELSE IF k = 0 THEN EnvReqErr
        ELSE EnvReqOk(name, SubSeq(var, k + 1, Len(var)))

\* EnvVarReq::matches
EnvVarReq_matches(e, req) ==
    LET v == var_os(e, req.name) IN v.set /\ v.val = req.value

\* any_env_vars_exist
any_env_vars_exist(e, names) ==
    IF names.some
    THEN \E i \in 1..Len(names.vals) : var_os(e, names.vals[i]).set
    ELSE TRUE

RECURSIVE AnyEnvVar(_, _, _)
AnyEnvVar(e, v, i) ==
    IF i > Len(v) THEN Ok(FALSE)
    ELSE LET req == EnvVarReq_parse(v[i])
         IN  IF ~req.ok THEN Err
             ELSE IF EnvVarReq_matches(e, req) THEN Ok(TRUE)
             ELSE AnyEnvVar(e, v, i + 1)

\* matches_any_env_vars
matches_any_env_vars(e, reqs) ==
    IF reqs.some THEN AnyEnvVar(e, reqs.vals, 1) ELSE Ok(TRUE)

(***************************************************************************)
(* options_match, lines 170-171: the four results combined with &&, which  *)
(* does not evaluate its right operand when the left one is false.         *)
(***************************************************************************)
\* variant: the existence result is left out of the conjunction
combine_without_exists(channel_m, vers_m, exists_m, env_m) ==
    channel_m /\ vers_m /\ env_m

combine(channel_m, vers_m, exists_m, env_m) ==
    channel_m /\ vers_m /\ exists_m /\ env_m

\* the matchers called at lines 170-171, in call order
CalledAtReturn(channel_m, vers_m) ==
    IF channel_m /\ vers_m THEN <<"channel", "exists">> ELSE <<"channel">>

\* variant: `unless` decides like `when`
wants_command_like_when(m, options_matched) == options_matched

\* main, lines 319-335: does this mode ask for the wrapped command?
wants_command(m, options_matched) ==
    IF m = "when" THEN options_matched ELSE ~options_matched

(***************************************************************************)
(* Exit codes.                                                             *)
(***************************************************************************)
PanicExit == 101   \* a panicking Rust process (the .expect() calls)
UsageExit == 1     \* exit(1) after printing the usage
Sentinel == 127    \* exit(127) / unwrap_or(127)

NoStatus == [kind |-> "none", code |-> 0]
SpawnError == [kind |-> "err", code |-> 0]
Exited(c) == [kind |-> "exited", code |-> c]
Signaled == [kind |-> "signaled", code |-> 0]

\* the exit codes a wrapped command is given in the model
ChildCodes == {0, 1, 2, 101, 127, 255}

\* variant: a child without an exit code is reported as exit code 1
exit_for_missing_code_1(st) ==
    IF st.kind = "err" THEN 127
    ELSE IF st.kind = "exited" THEN st.code ELSE 1

\* main, lines 346-355, and the return from main
exit_for(st) ==
    IF st.kind = "err" THEN Sentinel
    ELSE IF st.kind = "exited"
         THEN IF st.code # 0 THEN st.code ELSE 0
         ELSE Sentinel

(***************************************************************************)
(* The steps of the process.                                               *)
(***************************************************************************)
Exit(code, out) ==
    /\ pc' = "exited"
    /\ exit_code' = code
    /\ stderr' = stderr \o out

inputs == <<mode, opts, argv, env, rustc>>

\* get_info, lines 23-28: spawn `rustc -V`
StartProbe ==
    /\ pc = "main"
    /\ IF rustc.spawn
       THEN /\ started' = Append(started, "rustc")
            /\ running' = running \cup {"rustc"}
            /\ pc' = "probe"
            /\ UNCHANGED <<exit_code, stderr>>
       ELSE /\ Exit(PanicExit, <<"panic">>)
            /\ UNCHANGED <<started, running>>
    /\ UNCHANGED <<inputs, rustc_info, env_matches, vers_matches, matched,
                   evaluated, command, status>>

\* variant: the output is parsed while rustc is left running
FinishProbe_without_waiting ==
    /\ pc = "probe"
    /\ LET info == get_info(rustc)
       IN  IF info.ok
           THEN /\ rustc_info' = info
                /\ pc' = "env"
                /\ UNCHANGED <<exit_code, stderr>>
           ELSE /\ Exit(PanicExit, <<"panic">>)
                /\ UNCHANGED rustc_info
    /\ UNCHANGED <<inputs, env_matches, vers_matches, matched, evaluated,
                   command, status, started, running>>

\* get_info, lines 27-60: rustc has exited, its output is parsed
FinishProbe ==
    /\ pc = "probe"
    /\ running' = running \ {"rustc"}
    /\ LET info == get_info(rustc)
       IN  IF info.ok
           THEN /\ rustc_info' = info
                /\ pc' = "env"
                /\ UNCHANGED <<exit_code, stderr>>
           ELSE /\ Exit(PanicExit, <<"panic">>)
                /\ UNCHANGED rustc_info
    /\ UNCHANGED <<inputs, env_matches, vers_matches, matched, evaluated,
                   command, status, started>>

\* options_match, lines 156-161
MatchEnvVars ==
    /\ pc = "env"
    /\ env_matches' = matches_any_env_vars(env, opts.equals)
    /\ evaluated' = Append(evaluated, "equals")
    /\ IF env_matches'.ok
       THEN pc' = "vers" /\ UNCHANGED <<exit_code, stderr>>
       ELSE Exit(UsageExit, <<"diagnostic", "usage">>)
    /\ UNCHANGED <<inputs, rustc_info, vers_matches, matched, command,
                   status, started, running>>

\* options_match, lines 163-168
MatchVersions ==
    /\ pc = "vers"
    /\ vers_matches' = matches_any_versions(rustc_info, opts.version)
    /\ evaluated' = Append(evaluated, "version")
    /\ IF vers_matches'.ok
       THEN pc' = "return" /\ UNCHANGED <<exit_code, stderr>>
       ELSE Exit(UsageExit, <<"diagnostic", "usage">>)
    /\ UNCHANGED <<inputs, rustc_info, env_matches, matched, command,
                   status, started, running>>

\* options_match, lines 170-171
OptionsMatchReturn ==
    /\ pc = "return"
    /\ LET channel_m == matches_any_channels(rustc_info, opts.channel)
           exists_m == any_env_vars_exist(env, opts.exists)
       IN  /\ matched' = Ok(combine(channel_m, vers_matches.val, exists_m,
                                    env_matches.val))
           /\ evaluated' = evaluated \o CalledAtReturn(channel_m, vers_matches.val)
    /\ pc' = "decide"
    /\ UNCHANGED <<inputs, rustc_info, env_matches, vers_matches, command,
                   status, started, running, stderr, exit_code>>

\* main, lines 319-335, with get_cargo_command, lines 175-190
Decide ==
    /\ pc = "decide"
    /\ IF wants_command(mode, matched.val)
       THEN IF argv # <<>>
            THEN /\ command' = Some(argv)
                 /\ pc' = "dispatch"
                 /\ UNCHANGED <<exit_code, stderr>>
            ELSE /\ Exit(UsageExit, <<"usage">>)
                 /\ UNCHANGED command
       ELSE /\ command' = None
            /\ pc' = "dispatch"
            /\ UNCHANGED <<exit_code, stderr>>
    /\ UNCHANGED <<inputs, rustc_info, env_matches, vers_matches, matched,
                   evaluated, status, started, running>>

\* main, lines 338-344 and 352-354: spawn cargo, or return from main
Dispatch ==
    /\ pc = "dispatch"
    /\ IF command.some
       THEN \/ /\ started' = Append(started, "cargo")
               /\ running' = running \cup {"cargo"}
               /\ pc' = "wait"
               /\ UNCHANGED <<status, exit_code, stderr>>
            \/ /\ status' = SpawnError
               /\ Exit(exit_for(status'), <<>>)
               /\ UNCHANGED <<started, running>>
       ELSE /\ Exit(0, <<>>)
            /\ UNCHANGED <<status, started, running>>
    /\ UNCHANGED <<inputs, rustc_info, env_matches, vers_matches, matched,
                   evaluated, command>>

\* main, lines 344-351: cargo has terminated
Wait ==
    /\ pc = "wait"
    /\ running' = running \ {"cargo"}
    /\ \E st \in {Exited(c) : c \in ChildCodes} \cup {Signaled} :
          /\ status' = st
          /\ Exit(exit_for(st), <<>>)
    /\ UNCHANGED <<inputs, rustc_info, env_matches, vers_matches, matched,
                   evaluated, command, started>>

Next ==
    \/ StartProbe
    \/ FinishProbe
    \/ MatchEnvVars
    \/ MatchVersions
    \/ OptionsMatchReturn
    \/ Decide
    \/ Dispatch
    \/ Wait

(***************************************************************************)
(* The invocations the model covers.  Every one has at least one of the    *)
(* four options (ArgGroup "matches" is required).                          *)
(***************************************************************************)
RustcFails == [spawn |-> FALSE, stdout |-> <<>>]
RustcPrints(toks) == [spawn |-> TRUE, stdout |-> toks]
VTok(ma, mi, pa, pre) == Token(TRUE, Version(ma, mi, pa, pre))

F == <<"F">>
G == <<"G">>
EnvOf(f, g) == (F :> f) @@ (G :> g)

Start(Modes, Argvs, Rustcs, Envs, Chans, Vers, Exs, Eqs) ==
    /\ mode \in Modes
    /\ argv \in Argvs
    /\ rustc \in Rustcs
    /\ env \in Envs
    /\ opts \in [channel : Chans, version : Vers, exists : Exs, equals : Eqs]
    /\ opts.channel.some \/ opts.version.some \/ opts.exists.some \/ opts.equals.some
    /\ pc = "main"
    /\ rustc_info = InfoPanic
    /\ env_matches = Unevaluated
    /\ vers_matches = Unevaluated
    /\ matched = Unevaluated
    /\ evaluated = <<>>
    /\ command = None
    /\ status = NoStatus
    /\ started = <<>>
    /\ running = {}
    /\ stderr = <<>>
    /\ exit_code = -1

BothModes == {"when", "unless"}

Invalid == Token(FALSE, NotAVersion)
Stable100 == VTok(1, 0, 0, <<>>)
Nightly120 == VTok(1, 2, 0, <<AlphaNumeric(nightly)>>)
UpperNightly == <<"N", "i", "g", "h", "t", "l", "y">>
Nightly123 == VTok(1, 2, 3, <<AlphaNumeric(UpperNightly)>>)
Beta200 == VTok(2, 0, 0, <<AlphaNumeric(beta), Numeric>>)
Numeric003 == VTok(0, 0, 3, <<Numeric, AlphaNumeric(beta)>>)
Req110 == ReqOk(<<Pred(">=", 1, 1, 0)>>)

ReqPool ==
    {ReqBad,
     Req110,
     ReqOk(<<Pred("=", 1, 2, 0)>>),
     ReqOk(<<Pred("^", 1, 2, 0)>>),
     ReqOk(<<Pred("^", 0, 0, 3)>>),
     ReqOk(<<Pred("~", 1, 2, 0)>>),
     ReqOk(<<Pred(">", 1, 0, 0), Pred("<=", 1, 2, 3)>>),
     ReqOk(<<Pred("<", 1, 2, 0)>>)}

EnvValues == SeqsUpTo({"b", "B", "="}, 1) \cup {<<"b", "=">>, <<"b", "B">>}
ReqStrings == SeqsUpTo({"F", "=", "b", "B"}, MaxReqLen)

\* all four options together, a few lists each
InitAll ==
    Start(BothModes, {<<>>, <<"build">>},
          {RustcPrints(<<Word, Stable100>>), RustcPrints(<<Word, Nightly120>>)},
          {EnvOf(Unset, Unset), EnvOf(SetTo(<<"b">>), Unset)},
          {None, Some(<<stable>>), Some(<<nightly>>), Some(<<beta, nightly>>)},
          {None, Some(<<Req110>>), Some(<<ReqBad>>), Some(<<Req110, ReqBad>>)},
          {None, Some(<<F>>), Some(<<G>>), Some(<<G, F>>)},
          {None, Some(<<<<"F", "=", "b">>>>), Some(<<<<"F">>>>),
           Some(<<<<"F", "=", "b">>, <<"=", "b">>>>),
           Some(<<<<"F", "=", "B">>, <<"F", "=", "b">>>>)})

\* what rustc prints, and the --channel lists
InitChannel ==
    Start(BothModes, {<<"build">>},
          {RustcFails} \cup
            {RustcPrints(t) :
               t \in SeqsUpTo({Word, Invalid, Stable100, Nightly123, Beta200,
                               Numeric003}, MaxTokens)},
          {EnvOf(Unset, Unset)},
          OptionValues(PossibleChannels, MaxCands) \ {None},
          {None}, {None}, {None})

\* the --version lists
InitVersion ==
    Start(BothModes, {<<"build">>},
          {RustcPrints(<<Word, v>>) :
             v \in {Stable100, Nightly120, Nightly123, Beta200, Numeric003}},
          {EnvOf(Unset, Unset)},
          {None, Some(<<stable>>)},
          OptionValues(ReqPool, MaxCands) \ {None},
          {None}, {None})

\* the --exists and --equals lists and the environment
InitEnv ==
    Start(BothModes, {<<"test", "--release">>},
          {RustcPrints(<<Word, Stable100>>)},
          {EnvOf(f, g) : f \in {Unset} \cup {SetTo(v) : v \in EnvValues},
                         g \in {Unset, SetTo(<<>>)}},
          {None}, {None},
          OptionValues({F, G}, MaxCands),
          {None}
            \cup {Some(<<r>>) : r \in ReqStrings}
            \cup OptionValues({<<"F", "=", "b">>, <<"F", "=", "B">>, <<"F">>,
                               <<"G", "=">>}, MaxCands))

Init == InitAll \/ InitChannel \/ InitVersion \/ InitEnv

Spec == Init /\ [][Next]_vars

(***************************************************************************)
(* Properties.                                                             *)
(***************************************************************************)
HasExited == pc = "exited"
CargoStarted == \E i \in 1..Len(started) : started[i] = "cargo"
\* Command::new("cargo")...status() was called
SpawnAttempted == CargoStarted \/ status.kind = "err"
Printed(what) == \E i \in 1..Len(stderr) : stderr[i] = what

CandidatesOf(o) == {o.vals[i] : i \in 1..Len(o.vals)}
HasEq(str) == \E i \in 1..Len(str) : str[i] = "="
\* the requirement string is NAME=VALUE with a non-empty NAME
WellFormedReq(str) == HasEq(str) /\ str[1] # "="
MalformedVersion == \E v \in CandidatesOf(opts.version) : ~v.ok
MalformedEquals == \E r \in CandidatesOf(opts.equals) : ~WellFormedReq(r)

\* C1: with a non-empty trailing argv and an evaluation that ended without a
\* parse error, `when` spawns the wrapped command iff the combined result is
\* true and `unless` spawns it iff the combined result is false.
C1_ModesAreComplements ==
    /\ CargoStarted => matched.set
    /\ (matched.set /\ argv # <<>> /\ (HasExited \/ pc = "wait")) =>
          /\ mode = "when" => (SpawnAttempted <=> matched.val)
          /\ mode = "unless" => (SpawnAttempted <=> ~matched.val)

C1_Witness ==
    /\ HasExited /\ mode = "unless" /\ matched.set /\ ~matched.val
    /\ CargoStarted /\ argv # <<>>

\* C2: when every candidate is well-formed, the result of options_match is
\* the AND over the four kinds of: the kind is absent, or one of its
\* candidates matches.
KindHolds(o, Matches(_)) == ~o.some \/ \E c \in CandidatesOf(o) : Matches(c)
ChannelCandidateMatches(c) == matches_channel(rustc_info, c)
VersionCandidateMatches(c) == ReqMatches(c, rustc_info.version)
ExistsCandidateMatches(c) == var_os(env, c).set
EqualsCandidateMatches(c) == EnvVarReq_matches(env, EnvVarReq_parse(c))

C2_AndOfOrs ==
    (matched.set /\ ~MalformedVersion /\ ~MalformedEquals) =>
        matched.val =
            (/\ KindHolds(opts.channel, ChannelCandidateMatches)
             /\ KindHolds(opts.version, VersionCandidateMatches)
             /\ KindHolds(opts.exists, ExistsCandidateMatches)
             /\ KindHolds(opts.equals, EqualsCandidateMatches))

\* three kinds hold, the fourth is supplied and has no matching candidate
C2_Witness ==
    /\ matched.set /\ ~matched.val
    /\ opts.channel.some /\ opts.version.some /\ opts.exists.some /\ opts.equals.some
    /\ KindHolds(opts.channel, ChannelCandidateMatches)
    /\ KindHolds(opts.version, VersionCandidateMatches)
    /\ ~KindHolds(opts.exists, ExistsCandidateMatches)
    /\ KindHolds(opts.equals, EqualsCandidateMatches)
    /\ ~MalformedVersion /\ ~MalformedEquals

\* C3: on "skip" the process exits 0 and no wrapped process is created; on
\* "run" it exits with the child's exit code when the child exited, and with
\* 127 when the child could not be spawned or ended without an exit code.
Skip == matched.set /\ ~wants_command(mode, matched.val)

C3_ExitCodes ==
    /\ Skip => ~SpawnAttempted /\ (HasExited => exit_code = 0)
    /\ (HasExited /\ status.kind = "exited") => exit_code = status.code
    /\ (HasExited /\ status.kind \in {"err", "signaled"}) => exit_code = 127

C3_Witness ==
    /\ HasExited /\ status.kind = "signaled" /\ exit_code = 127 /\ CargoStarted

\* C4: the version matcher returns true iff the probed version satisfies one
\* of the ranges, and raises a parse error whenever any range of the list is
\* unparsable, wherever it stands in the list.
C4_AnyUnparsableRangeIsAnError ==
    (vers_matches.set /\ opts.version.some) =>
        IF MalformedVersion
        THEN ~vers_matches.ok
        ELSE /\ vers_matches.ok
             /\ vers_matches.val = KindHolds(opts.version, VersionCandidateMatches)

\* C5: with an empty trailing argv the invocation is a usage error (usage
\* printed, exit 1) in both modes and for every predicate outcome, and the
\* compiler probe and the predicates are not run.
C5_EmptyArgvIsUsageError ==
    argv = <<>> =>
        /\ started = <<>>
        /\ evaluated = <<>>
        /\ HasExited => (exit_code = 1 /\ Printed("usage"))

\* C6: the derived channel is "stable" without a pre-release part, the text
\* of the first pre-release identifier when it is alphanumeric and "unknown"
\* when it is numeric; the channel matcher is true iff the derived channel
\* equals a candidate whatever the letter case of either side, and true when
\* no candidate was supplied.
ProbedPre == rustc.stdout[2].ver.pre
EqualIgnoringCase(a, b) == to_lowercase(a) = to_lowercase(b)
ChannelMatchesIgnoringCase(c) == EqualIgnoringCase(rustc_info.channel, c)

C6_ChannelIgnoringCase ==
    rustc_info.ok =>
        /\ ProbedPre = <<>> => rustc_info.channel = stable
        /\ (ProbedPre # <<>> /\ ProbedPre[1].alnum) =>
              rustc_info.channel = ProbedPre[1].s
        /\ (ProbedPre # <<>> /\ ~ProbedPre[1].alnum) =>
              rustc_info.channel = unknown
        /\ matches_any_channels(rustc_info, opts.channel) =
              KindHolds(opts.channel, ChannelMatchesIgnoringCase)
        /\ (matched.set /\ ~opts.version.some /\ ~opts.exists.some
              /\ ~opts.equals.some) =>
              matched.val = KindHolds(opts.channel, ChannelMatchesIgnoringCase)

\* C7: a requirement string without '=' or with nothing before its first '='
\* does not parse; otherwise the name is the text before the first '=', the
\* value everything after it, and the requirement matches iff the variable
\* is set and its value equals the value exactly (case-sensitively).
IsFirstEq(str, k) == str[k] = "=" /\ \A j \in 1..(k - 1) : str[j] # "="
ReqHolds(str) ==
    \E k \in 1..Len(str) :
        /\ IsFirstEq(str, k)
        /\ SubSeq(str, 1, k - 1) \in DOMAIN env
        /\ env[SubSeq(str, 1, k - 1)].set
        /\ env[SubSeq(str, 1, k - 1)].val = SubSeq(str, k + 1, Len(str))

C7_EnvRequirement ==
    /\ \A str \in CandidatesOf(opts.equals) :
          LET req == EnvVarReq_parse(str)
          IN  IF ~WellFormedReq(str) THEN ~req.ok
              ELSE /\ req.ok
                   /\ \E k \in 1..Len(str) :
                         /\ IsFirstEq(str, k)
                         /\ req.name = SubSeq(str, 1, k - 1)
                         /\ req.value = SubSeq(str, k + 1, Len(str))
                   /\ EnvVarReq_matches(env, req) = ReqHolds(str)
    /\ (env_matches.set /\ opts.equals.some /\ Len(opts.equals.vals) = 1) =>
          IF ~WellFormedReq(opts.equals.vals[1]) THEN ~env_matches.ok
          ELSE env_matches.ok /\ env_matches.val = ReqHolds(opts.equals.vals[1])

\* the variable is set to "=" and the requirement is F==, which matches
C7_Witness ==
    /\ env_matches.set /\ env_matches.ok /\ env_matches.val
    /\ opts.equals.some /\ opts.equals.vals = << <<"F", "=", "=">> >>
    /\ env[F] = SetTo(<<"=">>)

\* the variable is set to "B" and the requirement is F=b, which does not match
C7_WitnessCase ==
    /\ env_matches.set /\ env_matches.ok /\ ~env_matches.val
    /\ opts.equals.some /\ opts.equals.vals = << <<"F", "=", "b">> >>
    /\ env[F] = SetTo(<<"B">>)

\* C8: when the predicate spec contains a malformed version range or a
\* malformed NAME=VALUE string (and rustc was probed), the process exits 1
\* after a diagnostic and the usage, whatever the other predicates are, and
\* the wrapped command is never spawned, in both modes.
C8_MalformedAlwaysExits1 ==
    (rustc_info.ok /\ (MalformedVersion \/ MalformedEquals)) =>
        /\ ~SpawnAttempted
        /\ ~matched.set
        /\ HasExited => (exit_code = 1 /\ Printed("diagnostic") /\ Printed("usage"))

\* C9: a probe failure is fatal: non-zero exit, no predicate evaluated, the
\* wrapped command never spawned, the probe not retried.
ProbeAborts ==
    /\ pc \in {"main", "probe", "exited"}
    /\ evaluated = <<>>
    /\ ~matched.set
    /\ ~SpawnAttempted
    /\ Len(started) <= 1
    /\ HasExited => (exit_code # 0 /\ Printed("panic"))

\* as claimed: a non-UTF8 output counts as a probe failure
ClaimedProbeFailure ==
    \/ ~rustc.spawn
    \/ \E i \in 1..Len(rustc.stdout) : ~rustc.stdout[i].utf8
    \/ Len(rustc.stdout) < 2
    \/ ~rustc.stdout[2].ver.ok

C9_AnyNonUtf8IsFatal == ClaimedProbeFailure => ProbeAborts

\* amended: invalid bytes matter only in the second token
ProbeFailure ==
    \/ ~rustc.spawn
    \/ Len(rustc.stdout) < 2
    \/ ~rustc.stdout[2].utf8
    \/ ~rustc.stdout[2].ver.ok

C9_ProbeFailureIsFatal == ProbeFailure => ProbeAborts

C9_Witness ==
    /\ HasExited /\ exit_code = PanicExit /\ started = <<"rustc">>
    /\ Len(rustc.stdout) >= 2 /\ ~rustc.stdout[2].utf8

\* C10: at most two child processes, never two at once; the probe is started
\* at most once and has completed before any predicate is evaluated; the
\* wrapped command is started at most once, after the probe, and only when
\* the mode's decision is "run".
C10_ChildProcesses ==
    /\ Cardinality(running) <= 1
    /\ started \in {<<>>, <<"rustc">>, <<"rustc", "cargo">>}
    /\ evaluated # <<>> => (started # <<>> /\ "rustc" \notin running /\ rustc_info.ok)
    /\ CargoStarted =>
          /\ rustc_info.ok
          /\ "rustc" \notin running
          /\ matched.set /\ wants_command(mode, matched.val)

C10_Witness == started = <<"rustc", "cargo">> /\ running = {"cargo"}

====
